---------------------------- MODULE Spec2Model ----------------------------
(***************************************************************************)
(* A model of the PoolSeason safety-data-sheet downloader (src/main.go):   *)
(* the filename sanitizer, the deduplicator, the downloader and the page   *)
(* scrape driver.  Strings are TLA+ strings, read one character at a time  *)
(* with SubSeq, so every conversion is computed the way the Go code        *)
(* computes it.                                                            *)
(***************************************************************************)
EXTENDS Integers, Sequences, FiniteSets, TLC

VARIABLES
    rawURL,          \* urlToFilename: its argument
    safeFilename,    \* urlToFilename: its result
    sanitized,       \* urlToFilename has returned
    slice,           \* removeDuplicatesFromSlice: its argument
    newReturnSlice,  \* removeDuplicatesFromSlice: its result
    deduped,         \* removeDuplicatesFromSlice has returned
    pc,              \* main: where the process is
    run,             \* main: the number of this run of the program
    getData,         \* main: the seed page bodies fetched so far
    downloadPDFURLSlice, \* main: the deduplicated links
    idx,             \* main: the position of the download loop in that slice
    fs,              \* the output directory: what each target path holds
    req,             \* the HTTP request in flight and what its server does
    call,            \* the current (or last) invocation of downloadPDF
    attempts,        \* the URLs handed to downloadPDF in this run, in order
    exitStatus       \* the exit status of the process, -1 while it runs

pureVars == <<rawURL, safeFilename, sanitized, slice, newReturnSlice, deduped>>

mainVars == <<pc, run, getData, downloadPDFURLSlice, idx, fs, req, call, attempts,
              exitStatus>>

vars == <<pureVars, mainVars>>

-----------------------------------------------------------------------------
(* Bounds of the model. *)

\* The longest URL handed to urlToFilename, in words of URLWords.
MaxWords == 5

\* The longest slice handed to removeDuplicatesFromSlice.
MaxSlice == 4

\* The most links a seed page holds.
MaxPage == 2

\* The runs of the program over the same output directory.
MaxRuns == 2

\* The size of a non-empty response body, in bytes.
BodyBytes == 2

-----------------------------------------------------------------------------
(* Strings. *)

LowerAlpha == "abcdefghijklmnopqrstuvwxyz"
UpperAlpha == "ABCDEFGHIJKLMNOPQRSTUVWXYZ"
DigitChars == "0123456789"

\* The i-th character of s, as a string of length one.
Ch(s, i) == SubSeq(s, i, i)

CharsOf(s) == {Ch(s, i) : i \in 1..Len(s)}

LowerSet == CharsOf(LowerAlpha)
UpperSet == CharsOf(UpperAlpha)
DigitSet == CharsOf(DigitChars)

\* The regexp class [a-z0-9].
IsAlnumLower(c) == c \in LowerSet \cup DigitSet

ToLowerCh(c) ==
    IF c \in UpperSet
    THEN Ch(LowerAlpha, CHOOSE i \in 1..Len(UpperAlpha) : Ch(UpperAlpha, i) = c)
    ELSE c

RECURSIVE ToLower(_)
\* strings.ToLower
ToLower(s) ==
    IF s = "" THEN "" ELSE ToLowerCh(Ch(s, 1)) \o ToLower(Tail(s))

HasPrefix(s, p) == Len(s) >= Len(p) /\ SubSeq(s, 1, Len(p)) = p

HasSuffix(s, p) == Len(s) >= Len(p) /\ SubSeq(s, Len(s) - Len(p) + 1, Len(s)) = p

\* strings.Contains
Contains(s, sub) == \E i \in 1..(Len(s) - Len(sub) + 1) : SubSeq(s, i, i + Len(sub) - 1) = sub

\* The positions of "/" in s.
SlashPositions(s) == {i \in 1..Len(s) : Ch(s, i) = "/"}

Max(S) == CHOOSE m \in S : \A n \in S : n <= m

-----------------------------------------------------------------------------
(* The filename sanitizer. *)

RECURSIVE StripTrailingSlashes(_)
StripTrailingSlashes(s) ==
    IF s # "" /\ Ch(s, Len(s)) = "/"
    THEN StripTrailingSlashes(SubSeq(s, 1, Len(s) - 1))
    ELSE s

\* path.Base: the last element of the path, "." for the empty path and "/"
\* for a path of slashes only.
getFileNameOnly(content) ==
    IF content = "" THEN "."
    ELSE LET p == StripTrailingSlashes(content)
             q == IF SlashPositions(p) = {} THEN p
                  ELSE SubSeq(p, Max(SlashPositions(p)) + 1, Len(p))
         IN IF q = "" THEN "/" ELSE q

\* filepath.Ext: the suffix from the last "." of the last slash-separated
\* element, or "" when that element has no ".".
getFileExtension(path) ==
    LET from == IF SlashPositions(path) = {} THEN 1 ELSE Max(SlashPositions(path)) + 1
        dots == {i \in from..Len(path) : Ch(path, i) = "."}
    IN IF dots = {} THEN "" ELSE SubSeq(path, Max(dots), Len(path))

RECURSIVE ReplaceNonAlphanumeric(_)
\* regexp [^a-z0-9]+ replaced by "_": each maximal run gives one "_".
ReplaceNonAlphanumeric(s) ==
    IF s = "" THEN ""
    ELSE IF IsAlnumLower(Ch(s, 1)) THEN Ch(s, 1) \o ReplaceNonAlphanumeric(Tail(s))
    ELSE IF Len(s) >= 2 /\ ~IsAlnumLower(Ch(s, 2)) THEN ReplaceNonAlphanumeric(Tail(s))
    ELSE "_" \o ReplaceNonAlphanumeric(Tail(s))

RECURSIVE CollapseUnderscores(_)
\* regexp _+ replaced by "_".
CollapseUnderscores(s) ==
    IF s = "" THEN ""
    ELSE IF Ch(s, 1) = "_" /\ Len(s) >= 2 /\ Ch(s, 2) = "_" THEN CollapseUnderscores(Tail(s))
    ELSE Ch(s, 1) \o CollapseUnderscores(Tail(s))

\* strings.CutPrefix(s, "_"): s without one leading "_".
CutPrefixUnderscore(s) == IF HasPrefix(s, "_") THEN Tail(s) ELSE s

RECURSIVE ReplaceAllEmpty(_, _)
\* strings.ReplaceAll(s, old, ""): the non-overlapping occurrences of old,
\* found from the left, are deleted in one pass.
ReplaceAllEmpty(s, old) ==
    IF s = "" THEN ""
    ELSE IF HasPrefix(s, old) THEN ReplaceAllEmpty(SubSeq(s, Len(old) + 1, Len(s)), old)
    ELSE Ch(s, 1) \o ReplaceAllEmpty(Tail(s), old)

RECURSIVE ReplaceFirstEmpty(_, _)
\* A removal that stops after the first occurrence (strings.Replace with n = 1).
ReplaceFirstEmpty(s, old) ==
    IF s = "" THEN ""
    ELSE IF HasPrefix(s, old) THEN SubSeq(s, Len(old) + 1, Len(s))
    ELSE Ch(s, 1) \o ReplaceFirstEmpty(Tail(s), old)

\* A removal that stops after the first occurrence.
removeFirstOnly(input, toRemove) == ReplaceFirstEmpty(input, toRemove)

removeSubstring(input, toRemove) == ReplaceAllEmpty(input, toRemove)

invalidSubstrings == <<"_pdf", "_zip">>

RECURSIVE RemoveEach(_, _)
\* The loop over invalidSubstrings: one removal pass per substring, in order.
RemoveEach(s, subs) ==
    IF subs = <<>> THEN s ELSE RemoveEach(removeSubstring(s, Head(subs)), Tail(subs))

\* urlToFilename before the removal loop: the lowercased basename with its
\* unsafe runs replaced, its underscores collapsed and a leading one trimmed.
trimmedName(url) ==
    LET lowercaseURL == ToLower(url)
        baseFilename == getFileNameOnly(lowercaseURL)
        replaced     == ReplaceNonAlphanumeric(baseFilename)
        collapsed    == CollapseUnderscores(replaced)
    IN CutPrefixUnderscore(collapsed)

\* urlToFilename after the removal loop: the name the extension is appended to.
safeName(url) == RemoveEach(trimmedName(url), invalidSubstrings)

\* A sanitizer that forgets the extension.
noExt(url) == ""

\* The extension urlToFilename appends: filepath.Ext of the lowercased URL.
appendedExt(url) == getFileExtension(ToLower(url))

urlToFilename(url) == safeName(url) \o appendedExt(url)

-----------------------------------------------------------------------------
(* The deduplicator. *)

InSlice(s, x) == \E i \in 1..Len(s) : s[i] = x

RECURSIVE DedupFrom(_, _, _)
\* The loop of removeDuplicatesFromSlice: check is the map of seen entries,
\* acc the slice built so far.
DedupFrom(s, check, acc) ==
    IF s = <<>> THEN acc
    ELSE IF Head(s) \notin check
         THEN DedupFrom(Tail(s), check \cup {Head(s)}, Append(acc, Head(s)))
         ELSE DedupFrom(Tail(s), check, acc)

RECURSIVE DedupKeepLast(_)
\* A deduplicator that keeps the last occurrence of each entry.
DedupKeepLast(s) ==
    IF s = <<>> THEN <<>>
    ELSE IF InSlice(Tail(s), Head(s)) THEN DedupKeepLast(Tail(s))
         ELSE <<Head(s)>> \o DedupKeepLast(Tail(s))

removeDuplicatesFromSlice(s) == DedupFrom(s, {}, <<>>)

-----------------------------------------------------------------------------
(* URLs, as net/url reads them.  The links of the model hold letters,      *)
(* digits, ".", "/", ":" and "%": no query, fragment, user info or IPv6    *)
(* literal, so those parts of the parser are left out.                     *)

HexSet == DigitSet \cup CharsOf("abcdefABCDEF")

\* The position of the first c in s, or 0.
IndexOf(s, c) ==
    IF \E i \in 1..Len(s) : Ch(s, i) = c
    THEN CHOOSE i \in 1..Len(s) : Ch(s, i) = c /\ \A j \in 1..(i - 1) : Ch(s, j) # c
    ELSE 0

\* The position of the last c in s, or 0.
LastIndexOf(s, c) ==
    IF \E i \in 1..Len(s) : Ch(s, i) = c
    THEN Max({i \in 1..Len(s) : Ch(s, i) = c})
    ELSE 0

RECURSIVE SchemeEnd(_, _)
\* url.getScheme: the position of the ":" that ends a scheme, 0 when the URL
\* has no scheme, -1 for the error "missing protocol scheme".
SchemeEnd(s, i) ==
    IF i > Len(s) THEN 0
    ELSE LET c == Ch(s, i)
         IN IF c \in LowerSet \cup UpperSet THEN SchemeEnd(s, i + 1)
            ELSE IF c \in DigitSet \cup {"+", "-", "."}
                 THEN (IF i = 1 THEN 0 ELSE SchemeEnd(s, i + 1))
            ELSE IF c = ":" THEN (IF i = 1 THEN -1 ELSE i)
            ELSE 0

\* url.validOptionalPort: "" or ":" followed by digits only.
validOptionalPort(port) ==
    port = "" \/ (Ch(port, 1) = ":" /\ \A i \in 2..Len(port) : Ch(port, i) \in DigitSet)

\* url.unescape of a path: every "%" is followed by two hexadecimal digits.
validEscapes(s) ==
    \A i \in 1..Len(s) :
        Ch(s, i) = "%" => (i + 2 <= Len(s) /\ Ch(s, i + 1) \in HexSet /\ Ch(s, i + 2) \in HexSet)

ParseError == [err |-> TRUE, scheme |-> "", host |-> "", path |-> "", opaque |-> ""]

\* url.parse(rawURL, viaRequest): url.Parse is parse(rawURL, false) and
\* url.ParseRequestURI is parse(rawURL, true).
urlParse(raw, viaRequest) ==
    LET e == SchemeEnd(raw, 1)
    IN IF (raw = "" /\ viaRequest) \/ e = -1 THEN ParseError
       ELSE
       LET scheme == IF e = 0 THEN "" ELSE ToLower(SubSeq(raw, 1, e - 1))
           rest   == IF e = 0 THEN raw ELSE SubSeq(raw, e + 1, Len(raw))
       IN IF ~HasPrefix(rest, "/") /\ scheme # ""
          THEN [err |-> FALSE, scheme |-> scheme, host |-> "", path |-> "", opaque |-> rest]
          ELSE IF ~HasPrefix(rest, "/") /\ viaRequest THEN ParseError
          ELSE IF /\ ~HasPrefix(rest, "/")
                  /\ LET cut == IndexOf(rest, "/")
                         segment == IF cut = 0 THEN rest ELSE SubSeq(rest, 1, cut - 1)
                     IN Contains(segment, ":")
               THEN ParseError
          ELSE IF (scheme # "" \/ (~viaRequest /\ ~HasPrefix(rest, "///"))) /\ HasPrefix(rest, "//")
               THEN LET after == SubSeq(rest, 3, Len(rest))
                        cut   == IndexOf(after, "/")
                        authority == IF cut = 0 THEN after ELSE SubSeq(after, 1, cut - 1)
                        path  == IF cut = 0 THEN "" ELSE SubSeq(after, cut, Len(after))
                        colon == LastIndexOf(authority, ":")
                    IN IF colon # 0 /\ ~validOptionalPort(SubSeq(authority, colon, Len(authority)))
                       THEN ParseError
                       ELSE IF ~validEscapes(path) THEN ParseError
                       ELSE [err |-> FALSE, scheme |-> scheme, host |-> authority,
                             path |-> path, opaque |-> ""]
               ELSE IF ~validEscapes(rest) THEN ParseError
               ELSE [err |-> FALSE, scheme |-> scheme, host |-> "", path |-> rest,
                     opaque |-> ""]

\* URL.Hostname: the host without its port.
Hostname(host) ==
    LET colon == LastIndexOf(host, ":")
    IN IF colon # 0 /\ validOptionalPort(SubSeq(host, colon, Len(host)))
       THEN SubSeq(host, 1, colon - 1)
       ELSE host

getDomainFromURL(url) ==
    LET parsedURL == urlParse(url, FALSE)
    IN IF parsedURL.err THEN "" ELSE Hostname(parsedURL.host)

isUrlValid(uri) == ~urlParse(uri, TRUE).err

-----------------------------------------------------------------------------
(* The link extractor.  A page body is the sequence of the values of its   *)
(* href="..." attributes; the text between them holds no match.            *)

\* The regexp href="([^"]+\.pdf)": a value of at least one character
\* followed by ".pdf".
MatchesPDFHref(h) == Len(h) > 4 /\ HasSuffix(h, ".pdf")

extractPDFUrls(input) == SelectSeq(input, MatchesPDFHref)

RECURSIVE JoinBodies(_)
\* strings.Join(getData, "\n"): the bodies one after the other.
JoinBodies(bodies) ==
    IF bodies = <<>> THEN <<>> ELSE Head(bodies) \o JoinBodies(Tail(bodies))

-----------------------------------------------------------------------------
(* The downloader and the driver. *)

remoteAPIURL == <<"https://www.poolseason.com/safety-data-sheets/">>

remoteDomain == "https://www.poolseason.com"

pdfOutputDir == "PDFs/"

StatusOK == 200

\* The Timeout of the client downloadPDF builds, in minutes.
DownloadTimeout == 3

\* The Timeout of http.DefaultClient, which http.Get uses: none.
NoTimeout == 0

\* filepath.Join(dir, name) for a name without "/".
JoinPath(dir, name) ==
    IF name = "" THEN StripTrailingSlashes(dir)
    ELSE StripTrailingSlashes(dir) \o "/" \o name

\* The path downloadPDF writes finalURL to.
filePathOf(finalURL, outputDir) == JoinPath(outputDir, ToLower(urlToFilename(finalURL)))

\* The loop body of main before the download: a link without a host gets
\* the base domain prepended.
resolveURL(urls) == IF getDomainFromURL(urls) = "" THEN remoteDomain \o urls ELSE urls

\* What a path of the output directory holds.  "old" is a file that was
\* there before the first run; "empty" and "partial" are files created by
\* downloadPDF that hold none or a part of the body; "full" holds the body.
FileStates == {"old", "empty", "partial", "full"}

\* A file system that never finds a file.
fileNeverExists(fsv, filename) == FALSE

\* os.Stat succeeds and the entry is no directory.
fileExists(fsv, filename) == fsv[filename] \in FileStates

\* A content type check that accepts anything.
anyContentType(contentType) == TRUE

\* The content type check of downloadPDF.
isPDFContentType(contentType) == Contains(contentType, "application/pdf")

\* The links a seed page may hold: rooted and rootless relative links to
\* the same document, an absolute link, a link with a malformed escape, and
\* a link that is no PDF.
HrefSet == {"/docs/sheet1.pdf", "docs/sheet1.pdf", "https://other.com/x.pdf",
            "/a%.pdf", "/y.txt"}

RECURSIVE PagesOfLen(_)
PagesOfLen(n) ==
    IF n = 0 THEN {<<>>} ELSE {Append(b, h) : b \in PagesOfLen(n - 1), h \in HrefSet}

Pages == UNION {PagesOfLen(n) : n \in 0..MaxPage}

\* For each link main can meet: the URL it resolves to, whether that URL is
\* a valid request URI, and the path downloadPDF writes it to.
linkTable ==
    [h \in HrefSet |->
        CHOOSE link \in {[urls |-> u, valid |-> isUrlValid(u),
                          filePath |-> filePathOf(u, pdfOutputDir)] : u \in {resolveURL(h)}} :
            TRUE]

\* The paths downloadPDF can be asked to write.
TargetPaths ==
    {link.filePath : link \in {l \in {linkTable[h] : h \in {g \in HrefSet : MatchesPDFHref(g)}} : l.valid}}

NoResponse == [status |-> 0, contentType |-> "", links |-> <<>>, bytes |-> 0,
               readErr |-> FALSE]

NoRequest == [url |-> "", timeout |-> NoTimeout, server |-> "none", resp |-> NoResponse]

NoCall == [url |-> "", filePath |-> "", pre |-> "absent", sent |-> FALSE,
           server |-> "none", resp |-> NoResponse, created |-> 0,
           ret |-> "none", log |-> "none"]

\* What the server of a seed page does: it never answers, the request fails
\* with no response, the redirects run out (an error with a response whose
\* body is closed), or it answers with a body that may break off.
SeedServers ==
    {[url |-> "", timeout |-> NoTimeout, server |-> sv, resp |-> NoResponse] :
        sv \in {"hang", "transportErr", "redirectErr"}}
    \cup {[url |-> "", timeout |-> NoTimeout, server |-> "response",
           resp |-> [status |-> StatusOK, contentType |-> "text/html", links |-> b,
                     bytes |-> 0, readErr |-> re]] : b \in Pages, re \in BOOLEAN}

\* A response with the document: 200, a PDF content type and a body.
GoodResponse == [status |-> StatusOK, contentType |-> "application/pdf; charset=binary",
                 links |-> <<>>, bytes |-> BodyBytes, readErr |-> FALSE]

\* The responses to a download: the good one, and the good one with one
\* thing wrong (the status, the content type, a body that breaks off, an
\* empty body).
DownloadResponses ==
    {GoodResponse,
     [GoodResponse EXCEPT !.status = 404],
     [GoodResponse EXCEPT !.contentType = "text/html"],
     [GoodResponse EXCEPT !.readErr = TRUE],
     [GoodResponse EXCEPT !.bytes = 0]}

\* What the server of a download does: it never answers, the request
\* fails, or it answers.
DownloadServers ==
    {[url |-> "", timeout |-> DownloadTimeout, server |-> sv, resp |-> NoResponse] :
        sv \in {"hang", "transportErr"}}
    \cup {[url |-> "", timeout |-> DownloadTimeout, server |-> "response", resp |-> r] :
            r \in DownloadResponses}

\* What the disk does when downloadPDF creates and writes the file: the
\* creation fails, or the write stops after `written` bytes.
DiskOutcomes == [createErr : BOOLEAN, written : 0..BodyBytes]

\* downloadPDF from the return of client.Get to its own return: the log
\* line, the result, what the target path holds afterwards and the number of
\* files created, given what the path held (pre) and what the disk does.
finishDownload(server, resp, pre, disk) ==
    IF server # "response"
    THEN [log |-> "Failed to download", ret |-> FALSE, file |-> pre, created |-> 0]
    ELSE IF resp.status # StatusOK
    THEN [log |-> "Download failed", ret |-> FALSE, file |-> pre, created |-> 0]
    ELSE IF ~isPDFContentType(resp.contentType)
    THEN [log |-> "Invalid content type", ret |-> FALSE, file |-> pre, created |-> 0]
    ELSE IF resp.readErr
    THEN [log |-> "Failed to read PDF data", ret |-> FALSE, file |-> pre, created |-> 0]
    ELSE IF resp.bytes = 0
    THEN [log |-> "Downloaded 0 bytes", ret |-> FALSE, file |-> pre, created |-> 0]
    ELSE IF pre = "dir" \/ disk.createErr
    THEN [log |-> "Failed to create file", ret |-> FALSE, file |-> pre, created |-> 0]
    ELSE IF disk.written < resp.bytes
    THEN [log |-> "Failed to write PDF to file", ret |-> FALSE,
          file |-> IF disk.written = 0 THEN "empty" ELSE "partial",
          created |-> IF pre = "absent" THEN 1 ELSE 0]
    ELSE [log |-> "Successfully downloaded", ret |-> TRUE, file |-> "full",
          created |-> IF pre = "absent" THEN 1 ELSE 0]

\* The state of the sanitizer and the deduplicator while main runs.
PureIdle ==
    /\ rawURL = ""
    /\ safeFilename = ""
    /\ sanitized = FALSE
    /\ slice = <<>>
    /\ newReturnSlice = <<>>
    /\ deduped = FALSE

\* The state of main while the sanitizer or the deduplicator is checked.
MainIdle ==
    /\ pc = "idle"
    /\ run = 0
    /\ getData = <<>>
    /\ downloadPDFURLSlice = <<>>
    /\ idx = 0
    /\ fs = [p \in TargetPaths |-> "absent"]
    /\ req = NoRequest
    /\ call = NoCall
    /\ attempts = <<>>
    /\ exitStatus = -1

\* The process starts: the output directory holds, at each target path,
\* nothing, a file from earlier, or a directory.
Init ==
    /\ PureIdle
    /\ pc = "scrape"
    /\ run = 1
    /\ getData = <<>>
    /\ downloadPDFURLSlice = <<>>
    /\ idx = 0
    /\ fs \in [TargetPaths -> {"absent", "old", "dir"}]
    /\ req = NoRequest
    /\ call = NoCall
    /\ attempts = <<>>
    /\ exitStatus = -1

\* getDataFromURL up to http.Get: the request for the next seed page is
\* sent with the default client, which has no timeout.
Scrape ==
    /\ pc = "scrape"
    /\ Len(getData) < Len(remoteAPIURL)
    /\ \E sv \in SeedServers :
          req' = [sv EXCEPT !.url = remoteAPIURL[Len(getData) + 1]]
    /\ pc' = "fetching"
    /\ UNCHANGED <<pureVars, run, getData, downloadPDFURLSlice, idx, fs, call, attempts, exitStatus>>

\* The client gives up on a request that has a timeout and whose server
\* does not answer: client.Get returns an error.
ClientTimeout ==
    /\ pc \in {"fetching", "downloading"}
    /\ req.server = "hang"
    /\ req.timeout > 0
    /\ req' = [req EXCEPT !.server = "transportErr"]
    /\ UNCHANGED <<pureVars, pc, run, getData, downloadPDFURLSlice, idx, fs, call, attempts, exitStatus>>

\* http.Get of a seed page fails with no response: the error is logged and
\* response.Body dereferences nil, so that the process panics.
ScrapePanic ==
    /\ pc = "fetching"
    /\ req.server = "transportErr"
    /\ pc' = "exited"
    /\ exitStatus' = 2
    /\ req' = NoRequest
    /\ UNCHANGED <<pureVars, run, getData, downloadPDFURLSlice, idx, fs, call, attempts>>

\* http.Get of a seed page returns a response: getDataFromURL reads the body
\* (what was read before an error is kept, and nothing can be read of the
\* closed body of a redirect error) and returns it.  After the last seed
\* page main extracts the links of the joined bodies and deduplicates them.
ScrapeReturn ==
    /\ pc = "fetching"
    /\ req.server \in {"response", "redirectErr"}
    /\ LET body == IF req.server = "redirectErr" THEN <<>> ELSE req.resp.links
           data == Append(getData, body)
       IN /\ getData' = data
          /\ IF Len(data) < Len(remoteAPIURL)
             THEN /\ pc' = "scrape"
                  /\ UNCHANGED <<pureVars, downloadPDFURLSlice, idx>>
             ELSE /\ pc' = "loop"
                  /\ downloadPDFURLSlice' =
                        removeDuplicatesFromSlice(extractPDFUrls(JoinBodies(data)))
                  /\ idx' = 1
    /\ req' = NoRequest
    /\ UNCHANGED <<pureVars, run, fs, call, attempts, exitStatus>>

\* The loop body of main for a link that is no valid request URI once
\* resolved: no download.
SkipInvalid ==
    /\ pc = "loop"
    /\ idx <= Len(downloadPDFURLSlice)
    /\ \E link \in {linkTable[downloadPDFURLSlice[idx]]} : ~link.valid
    /\ idx' = idx + 1
    /\ UNCHANGED <<pureVars, pc, run, getData, downloadPDFURLSlice, fs, req, call, attempts, exitStatus>>

\* The loop body of main for a valid link whose file exists: downloadPDF
\* logs that it skips the file and returns false.
DownloadSkip ==
    /\ pc = "loop"
    /\ idx <= Len(downloadPDFURLSlice)
    /\ \E link \in {linkTable[downloadPDFURLSlice[idx]]} :
          /\ link.valid
          /\ fileExists(fs, link.filePath)
          /\ call' = [NoCall EXCEPT !.url = link.urls, !.filePath = link.filePath,
                                    !.pre = fs[link.filePath], !.ret = "false",
                                    !.log = "File already exists, skipping"]
          /\ attempts' = Append(attempts, link.urls)
    /\ idx' = idx + 1
    /\ UNCHANGED <<pureVars, pc, run, getData, downloadPDFURLSlice, fs, req, exitStatus>>

\* The loop body of main for a valid link whose file does not exist:
\* downloadPDF sends the GET with its three-minute client.
DownloadGet ==
    /\ pc = "loop"
    /\ idx <= Len(downloadPDFURLSlice)
    /\ \E link \in {linkTable[downloadPDFURLSlice[idx]]} :
          /\ link.valid
          /\ ~fileExists(fs, link.filePath)
          /\ call' = [NoCall EXCEPT !.url = link.urls, !.filePath = link.filePath,
                                    !.pre = fs[link.filePath], !.sent = TRUE,
                                    !.ret = "running"]
          /\ attempts' = Append(attempts, link.urls)
          /\ \E sv \in DownloadServers : req' = [sv EXCEPT !.url = link.urls]
    /\ pc' = "downloading"
    /\ UNCHANGED <<pureVars, run, getData, downloadPDFURLSlice, idx, fs, exitStatus>>

\* client.Get returns: downloadPDF checks the response, buffers the body,
\* creates the file, writes the buffer and returns; main goes on to the
\* next link.
DownloadReturn ==
    /\ pc = "downloading"
    /\ req.server # "hang"
    /\ \E disk \in DiskOutcomes :
          LET out == finishDownload(req.server, req.resp, fs[call.filePath], disk)
          IN /\ fs' = [fs EXCEPT ![call.filePath] = out.file]
             /\ call' = [call EXCEPT !.server = req.server, !.resp = req.resp,
                                     !.created = out.created,
                                     !.ret = IF out.ret THEN "true" ELSE "false",
                                     !.log = out.log]
    /\ req' = NoRequest
    /\ pc' = "loop"
    /\ idx' = idx + 1
    /\ UNCHANGED <<pureVars, run, getData, downloadPDFURLSlice, attempts, exitStatus>>

\* main returns after the last link: the process exits with status zero.
MainReturn ==
    /\ pc = "loop"
    /\ idx > Len(downloadPDFURLSlice)
    /\ pc' = "exited"
    /\ exitStatus' = 0
    /\ UNCHANGED <<pureVars, run, getData, downloadPDFURLSlice, idx, fs, req, call, attempts>>

\* The program is run again over the same output directory.
Rerun ==
    /\ pc = "exited"
    /\ run < MaxRuns
    /\ run' = run + 1
    /\ pc' = "scrape"
    /\ getData' = <<>>
    /\ downloadPDFURLSlice' = <<>>
    /\ idx' = 0
    /\ req' = NoRequest
    /\ call' = NoCall
    /\ attempts' = <<>>
    /\ exitStatus' = -1
    /\ UNCHANGED <<pureVars, fs>>

Next ==
    \/ Scrape
    \/ ClientTimeout
    \/ ScrapePanic
    \/ ScrapeReturn
    \/ SkipInvalid
    \/ DownloadSkip
    \/ DownloadGet
    \/ DownloadReturn
    \/ MainReturn
    \/ Rerun

Spec == Init /\ [][Next]_vars

\* The scheduler runs the process whenever it can take a step, and a
\* timer that is armed fires.
SpecLive == Spec /\ WF_vars(Next)

-----------------------------------------------------------------------------
(* The sanitizer applied to bounded URLs. *)

\* The pieces URLs are built from: a name with an upper-case letter and a
\* digit, fragments of "pdf" and "zip", a separator, the target extension
\* and the slash that ends a directory.
URLWords == {"B1", "p", "df", "zip", "_", ".pdf", "/"}

RECURSIVE URLsOfWords(_)
URLsOfWords(n) ==
    IF n = 0 THEN {""} ELSE {u \o w : u \in URLsOfWords(n - 1), w \in URLWords}

\* The non-empty URLs of at most n words.
RawURLs(n) == UNION {URLsOfWords(k) : k \in 1..n}

InitSanitizer ==
    /\ rawURL \in RawURLs(MaxWords)
    /\ safeFilename = ""
    /\ sanitized = FALSE
    /\ slice = <<>>
    /\ newReturnSlice = <<>>
    /\ deduped = FALSE
    /\ MainIdle

Sanitize ==
    /\ ~sanitized
    /\ safeFilename' = urlToFilename(rawURL)
    /\ sanitized' = TRUE
    /\ UNCHANGED <<rawURL, slice, newReturnSlice, deduped, mainVars>>

NextSanitizer == Sanitize

SpecSanitizer == InitSanitizer /\ [][NextSanitizer]_vars

-----------------------------------------------------------------------------
(* The deduplicator applied to bounded slices. *)

\* Two entries that differ by a trailing slash only, and a third one.
SliceEntries == {"http://x", "http://x/", "/a.pdf"}

RECURSIVE SlicesOfLen(_)
SlicesOfLen(n) ==
    IF n = 0 THEN {<<>>} ELSE {Append(s, e) : s \in SlicesOfLen(n - 1), e \in SliceEntries}

Slices == UNION {SlicesOfLen(n) : n \in 0..MaxSlice}

InitDedup ==
    /\ slice \in Slices
    /\ newReturnSlice = <<>>
    /\ deduped = FALSE
    /\ rawURL = ""
    /\ safeFilename = ""
    /\ sanitized = FALSE
    /\ MainIdle

Dedup ==
    /\ ~deduped
    /\ newReturnSlice' = removeDuplicatesFromSlice(slice)
    /\ deduped' = TRUE
    /\ UNCHANGED <<slice, rawURL, safeFilename, sanitized, mainVars>>

NextDedup == Dedup

SpecDedup == InitDedup /\ [][NextDedup]_vars

-----------------------------------------------------------------------------
(* Claims about the deduplicator. *)

\* The index of the first occurrence of x in s.
FirstIndex(s, x) == CHOOSE i \in 1..Len(s) : s[i] = x /\ \A j \in 1..(i - 1) : s[j] # x

\* C6: the result of removeDuplicatesFromSlice holds each distinct entry of
\* its argument exactly once, holds nothing else, and lists the entries in the
\* order of their first occurrence in the argument; entries are compared as
\* exact strings.
C6_DedupFirstOccurrenceOrder ==
    deduped =>
        /\ \A i \in 1..Len(slice) :
              Cardinality({k \in 1..Len(newReturnSlice) : newReturnSlice[k] = slice[i]}) = 1
        /\ \A k \in 1..Len(newReturnSlice) : InSlice(slice, newReturnSlice[k])
        /\ \A k \in 1..Len(newReturnSlice) : \A l \in (k + 1)..Len(newReturnSlice) :
              FirstIndex(slice, newReturnSlice[k]) < FirstIndex(slice, newReturnSlice[l])

\* A slice with a repeated entry between two others that differ by a
\* trailing slash only, deduplicated.
C6_Witness ==
    /\ deduped
    /\ slice = <<"http://x", "http://x/", "http://x", "/a.pdf">>
    /\ newReturnSlice = <<"http://x", "http://x/", "/a.pdf">>

-----------------------------------------------------------------------------
(* Claims about the sanitizer. *)

\* The text of u after its last "/".
LastSegment(u) ==
    IF SlashPositions(u) = {} THEN u ELSE SubSeq(u, Max(SlashPositions(u)) + 1, Len(u))

\* seg, lowercased, is at least n characters of [a-z0-9] followed by ".pdf".
IsSafePdfSegment(seg, n) ==
    LET l == ToLower(seg)
    IN /\ HasSuffix(l, ".pdf")
       /\ Len(l) - 4 >= n
       /\ \A i \in 1..(Len(l) - 4) : IsAlnumLower(Ch(l, i))

\* C7 as stated: for a URL whose final path segment is letters and digits
\* (none included) followed by ".pdf", urlToFilename returns the lowercased
\* segment unchanged.
C7_SafeBasenameUnchanged_Original ==
    (sanitized /\ IsSafePdfSegment(LastSegment(rawURL), 0))
        => safeFilename = ToLower(LastSegment(rawURL))

\* C7 as amended: for a URL whose final path segment is one or more letters
\* and digits followed by ".pdf", urlToFilename returns the lowercased
\* segment unchanged.
C7_SafeBasenameUnchanged ==
    (sanitized /\ IsSafePdfSegment(LastSegment(rawURL), 1))
        => safeFilename = ToLower(LastSegment(rawURL))

\* A URL with a directory part and an upper-case name before ".pdf",
\* sanitized to the lowercased name.
C7_Witness ==
    /\ sanitized
    /\ rawURL = "B1/B1.pdf"
    /\ safeFilename = "b1.pdf"

NamePart == SubSeq(safeFilename, 1, Len(safeFilename) - Len(appendedExt(rawURL)))

\* Every occurrence of sub in s is followed by "_" or ends s.
OnlyAsWholeWord(s, sub) ==
    \A i \in 1..(Len(s) - Len(sub) + 1) :
        SubSeq(s, i, i + Len(sub) - 1) = sub =>
            (i + Len(sub) - 1 = Len(s) \/ Ch(s, i + Len(sub)) = "_")

\* C9 as stated: the name part of the result holds no "_pdf" and no "_zip".
C9_NoRedundantSubstringLeft_Original ==
    sanitized => (~Contains(NamePart, "_pdf") /\ ~Contains(NamePart, "_zip"))

\* C9 as amended: when "_pdf" and "_zip" occur in the sanitized basename only
\* as whole "_"-separated words, the name part of the result holds no "_pdf"
\* and no "_zip", and removing them again changes nothing.
C9_NoRedundantSubstringLeft ==
    (/\ sanitized
     /\ OnlyAsWholeWord(trimmedName(rawURL), "_pdf")
     /\ OnlyAsWholeWord(trimmedName(rawURL), "_zip"))
        => /\ ~Contains(NamePart, "_pdf")
           /\ ~Contains(NamePart, "_zip")
           /\ ReplaceAllEmpty(ReplaceAllEmpty(NamePart, "_pdf"), "_zip") = NamePart

\* A basename holding "zip" and "pdf" as words, both removed.
C9_Witness ==
    /\ sanitized
    /\ rawURL = "B1_zip.pdf.pdf"
    /\ trimmedName(rawURL) = "b1_zip_pdf_pdf"
    /\ NamePart = "b1"

-----------------------------------------------------------------------------
(* Claims about the downloader and the driver. *)

\* C1: when a non-directory file is at the target path as downloadPDF is
\* called, the call sends no HTTP request, leaves the file as it was and
\* reports that it skips the item; this holds for every call of every run.
C1_ExistingFileNeverFetched ==
    (call.ret # "none" /\ call.pre \in FileStates) =>
        /\ ~call.sent
        /\ req.server = "none"
        /\ fs[call.filePath] = call.pre
        /\ call.ret = "false"
        /\ call.log = "File already exists, skipping"

\* In the second run, the file the first run downloaded is skipped.
C1_Witness ==
    /\ run = 2
    /\ call.pre = "full"
    /\ call.log = "File already exists, skipping"
    /\ ~call.sent

\* The GET ended in a transport error, a status other than 200, a content
\* type without "application/pdf", a body read error or an empty body.
FetchFailed(server, resp) ==
    \/ server # "response"
    \/ resp.status # 200
    \/ ~Contains(resp.contentType, "application/pdf")
    \/ resp.readErr
    \/ resp.bytes = 0

\* C2: a call of downloadPDF whose target path held nothing and whose GET
\* failed, or brought no PDF or no bytes, returns failure and leaves no file
\* at the target path.
C2_FailedFetchLeavesNoFile ==
    (/\ call.ret \in {"false", "true"}
     /\ call.sent
     /\ call.pre = "absent"
     /\ FetchFailed(call.server, call.resp))
        => (call.ret = "false" /\ fs[call.filePath] = "absent")

\* A 200 response of content type text/html has been refused and no file
\* was made.
C2_Witness ==
    /\ call.ret = "false"
    /\ call.sent
    /\ call.pre = "absent"
    /\ call.server = "response"
    /\ call.resp.status = 200
    /\ call.resp.contentType = "text/html"
    /\ call.log = "Invalid content type"
    /\ fs[call.filePath] = "absent"

\* C3: an invocation of downloadPDF creates at most one file, and one that
\* returns failure leaves no empty or partly written file at its target
\* path.
C3_AllOrNothing ==
    /\ call.created <= 1
    /\ (call.sent /\ call.ret = "false") => fs[call.filePath] \notin {"empty", "partial"}

\* C4: no error aborts a run: the process ends only by returning from main,
\* with exit status zero, after every seed page and every link was handled.
C4_NoErrorAbortsRun ==
    pc = "exited" =>
        /\ exitStatus = 0
        /\ Len(getData) = Len(remoteAPIURL)
        /\ idx = Len(downloadPDFURLSlice) + 1

RECURSIVE FirstOccurrences(_)
\* The distinct entries of s in the order of their first occurrence.
FirstOccurrences(s) ==
    IF s = <<>> THEN <<>>
    ELSE LET front == SubSeq(s, 1, Len(s) - 1)
             last  == s[Len(s)]
         IN IF InSlice(front, last) THEN FirstOccurrences(front)
            ELSE Append(FirstOccurrences(front), last)

\* The URL the claim expects downloadPDF to get for href: href itself when
\* it has a host, else a URL of host www.poolseason.com whose path is href.
IsDownloadOf(url, href) ==
    IF getDomainFromURL(href) # "" THEN url = href
    ELSE \E u \in {urlParse(url, FALSE)} :
            ~u.err /\ Hostname(u.host) = "www.poolseason.com" /\ u.path = href

\* C5: main hands downloadPDF one URL per distinct extracted href, in the
\* order of first occurrence: the href itself when it has a host, else the
\* URL of host www.poolseason.com whose path is the href.
C5_OneDownloadPerDistinctHref ==
    pc \in {"loop", "downloading", "exited"} /\ exitStatus # 2 =>
        \E hrefs \in {FirstOccurrences(extractPDFUrls(JoinBodies(getData)))} :
            /\ Len(attempts) <= Len(hrefs)
            /\ \A i \in 1..Len(attempts) : IsDownloadOf(attempts[i], hrefs[i])
            /\ (pc = "exited" => Len(attempts) = Len(hrefs))

\* C10: every HTTP request of a run is bounded by a timeout, so that every
\* run comes to its end, even when a server never answers.
C10_RunTerminates == []<>(pc = "exited")

=============================================================================
